---- MODULE Spec2Model ----
(***************************************************************************)
(* KeyNet (src/keynet/main.py): the listener registry, the keyboard hook   *)
(* handlers over current_keys, and the polling monitor thread with its     *)
(* per-thread last-value memory.                                           *)
(*                                                                         *)
(* Python's None is the empty tuple, a present value x is <<x>>.           *)
(***************************************************************************)
EXTENDS Integers, Sequences, FiniteSets, TLC

None == <<>>
Some(x) == <<x>>

\* ------------------------------------------------------------------ bounds
\* registrations (calls of on() that succeed) in one behaviour
MaxSubs == 2
\* calls of start() in one behaviour
MaxStarts == 2
\* calls of start() in one behaviour of the polling specification
PollStarts == 1

\* ------------------------------------------------------------- registry data
KeyTypes == {"key_press", "key_release", "key_combo"}
MouseTypes == {"mouse_click", "mouse_move", "mouse_scroll"}
PollTypes == {"volume_threshold", "volume_mute", "battery", "network"}
\* the keys of self.listeners
EventTypes == KeyTypes \cup MouseTypes \cup PollTypes

\* a callback either returns or raises when called
Callbacks == {"cb_ok", "cb_raise"}
Raises(cb) == cb = "cb_raise"

\* **kwargs of on(): the two keys the handlers read
Kw(combo, threshold) == [combo |-> combo, threshold |-> threshold]
NoKw == Kw(None, None)
\* a Python str is the tuple of its characters
ctrl == <<"c", "t", "r", "l">>
ComboKws == {NoKw, Kw(Some(<<>>), None), Kw(Some(<<ctrl, <<"c">>>>), None)}
ThresholdKws == {NoKw, Kw(None, Some(70))}
KwFor(event_type) ==
    IF event_type = "key_combo" THEN ComboKws
    ELSE IF event_type = "volume_threshold" THEN ThresholdKws
    ELSE {NoKw}

\* arguments of one callback call: the numbers, the booleans and the strings
Args(num, flag, keys) == [num |-> num, flag |-> flag, keys |-> keys]
Call(cat, idx, cb, args) == [cat |-> cat, idx |-> idx, cb |-> cb, args |-> args]

\* what a step reports: the operation, its thread, its string argument and
\* the answer of the external query it made
Ev(op, t, arg, q) == [op |-> op, t |-> t, arg |-> arg, q |-> q]

\* ------------------------------------------------------------ query results
Q(kind, batt, ifaces, vol, mute) ==
    [kind |-> kind, batt |-> batt, ifaces |-> ifaces, vol |-> vol, mute |-> mute]
NoQ == Q("none", None, <<>>, None, FALSE)
\* psutil.sensors_battery(): raises, returns None, or (percent, power_plugged)
BattQueries ==
    {Q("exc", None, <<>>, None, FALSE), Q("ok", None, <<>>, None, FALSE)}
    \cup {Q("ok", Some(b), <<>>, None, FALSE) :
            b \in {<<80, TRUE>>, <<79, TRUE>>, <<80, FALSE>>}}
\* psutil.net_if_stats(): raises, or the isup flag of each interface
NetQueries ==
    {Q("exc", None, <<>>, None, FALSE)}
    \cup {Q("ok", None, f, None, FALSE) : f \in {<<>>, <<FALSE, TRUE>>}}
\* what the platform's mixer answers: an exception inside the query, a missing
\* amixer, or an answer with the volume (absent when the output has none) and
\* the mute flag
VolQueries ==
    {Q("exc", None, <<>>, None, FALSE), Q("notool", None, <<>>, None, FALSE)}
    \cup {Q("ok", None, <<>>, v, m) :
            v \in {None, Some(40), Some(60), Some(80)}, m \in BOOLEAN}

OSes == {"windows", "darwin", "linux", "freebsd"}

\* ------------------------------------------------------------------ raw keys
\* pynput's KeyCode (a character, or a virtual key code only) and Key (a named
\* member of the enumeration)
KeyCode(char, vk) == [class |-> "KeyCode", char |-> char, name |-> <<>>, vk |-> vk]
Key(name) == [class |-> "Key", char |-> None, name |-> name, vk |-> <<>>]
NoKey == KeyCode(None, <<>>)
RawKeys == {KeyCode(Some(<<"c">>), <<>>), KeyCode(Some(<<"C">>), <<>>),
            KeyCode(None, <<"6", "5">>), Key(ctrl)}

VARIABLES
    listeners,      \* self.listeners: event type -> list of (callback, kwargs)
    current_keys,   \* self.current_keys
    running,        \* self.running
    os,             \* self.os
    nstarts,        \* start() calls so far; the n-th creates thread and hooks n
    mon,            \* the monitor threads: position and local variables
    kb,             \* the keyboard.Listener objects created so far
    ms,             \* the mouse.Listener objects created so far
    keyboard_listener,  \* self._keyboard_listener: 0 is None, else the n-th
    mouse_listener,     \* self._mouse_listener
    key_lock,       \* self._key_lock: 0 is free, else the hook thread holding it
    hook,           \* where the thread of each keyboard hook is in on_press /
                    \* on_release, when the handlers are taken step by step
    held,           \* the raw keys that are physically down
    hist,           \* per monitor thread: its latest available sample of each
                    \* signal, and the signals whose latest query failed
    trail,          \* the last press handled, the keys before it, and whether
                    \* the release of the same key was handled right after it
    out,            \* the callback calls made by the last step, in order
    ev,             \* the last step
    err             \* the exception the last API call raised, if any

vars == <<listeners, current_keys, running, os, nstarts, mon, kb, ms,
          keyboard_listener, mouse_listener, key_lock, hook, held, hist,
          trail, out, ev, err>>

Threads == 1..MaxStarts

\* ------------------------------------------------------------------ helpers
Min(S) == CHOOSE x \in S : \A y \in S : x <= y

NumSubs == LET RECURSIVE Sum(_)
               Sum(S) == IF S = {} THEN 0
                         ELSE LET e == CHOOSE x \in S : TRUE
                              IN Len(listeners[e]) + Sum(S \ {e})
           IN Sum(DOMAIN listeners)

\* for cb, _ in subs: cb(args)  -- the calls made, and whether one raised
RunCallbacks(cat, subs, args) ==
    LET bad == {i \in 1..Len(subs) : Raises(subs[i].cb)}
        n == IF bad = {} THEN Len(subs) ELSE Min(bad)
    IN [calls |-> [i \in 1..n |-> Call(cat, i, subs[i].cb, args)],
        raised |-> bad # {}]

\* params.get("threshold", 50)
DefaultThreshold == 50
GetThreshold(params) ==
    IF params.threshold = None THEN DefaultThreshold ELSE params.threshold[1]
\* params.get("combo", [])
GetCombo(params) == IF params.combo = None THEN <<>> ELSE params.combo[1]

\* ------------------------------------------------------------------- Init
\* (mutant) the last values are attributes of the instance, not locals
MonitorLocalsKept ==
    IF nstarts = 0
    THEN [last_battery |-> None, last_net |-> None,
          last_vol_state |-> None, last_mute_state |-> None]
    ELSE [last_battery |-> mon[nstarts].last_battery,
          last_net |-> mon[nstarts].last_net,
          last_vol_state |-> mon[nstarts].last_vol_state,
          last_mute_state |-> mon[nstarts].last_mute_state]
\* the local variables of monitor() as its thread starts
MonitorLocals ==
    [last_battery |-> None, last_net |-> None,
     last_vol_state |-> None, last_mute_state |-> None]
Unborn == [pc |-> "unborn"] @@ MonitorLocals

\* a hook thread in a handler: the step it is at, the token, the key_combo
\* subscription it is at
At(pc, key_str, i) == [pc |-> pc, key_str |-> key_str, i |-> i]
Idle == At("idle", <<>>, 0)
Trail(stage, key, before) == [stage |-> stage, key |-> key, before |-> before]
NoTrail == Trail("none", NoKey, {})
NoHist == [battery |-> None, network |-> None, volume |-> None,
           mute |-> None, failed |-> {}]
NoArgs == Args(<<>>, <<>>, <<>>)

Init ==
    /\ listeners = [e \in EventTypes |-> <<>>]
    /\ current_keys = {}
    /\ running = FALSE
    /\ os \in OSes
    /\ nstarts = 0
    /\ mon = [t \in Threads |-> Unborn]
    /\ kb = [t \in Threads |-> "unborn"]
    /\ ms = [t \in Threads |-> "unborn"]
    /\ keyboard_listener = 0
    /\ mouse_listener = 0
    /\ key_lock = 0
    /\ hook = [t \in Threads |-> Idle]
    /\ held = {}
    /\ hist = [t \in Threads |-> NoHist]
    /\ trail = NoTrail
    /\ out = <<>>
    /\ ev = Ev("init", 0, "", NoQ)
    /\ err = None

\* --------------------------------------------------------------- registry
\* (mutant) a registry that creates the list of an event type it does not know
on_creating(event_type, callback, kwargs) ==
    /\ NumSubs < MaxSubs
    /\ err' = None
    /\ listeners' = IF event_type \in DOMAIN listeners
                    THEN [listeners EXCEPT ![event_type] =
                             Append(@, [cb |-> callback, kw |-> kwargs])]
                    ELSE (event_type :> <<[cb |-> callback, kw |-> kwargs]>>)
                         @@ listeners
    /\ out' = <<>>
    /\ ev' = Ev("on", 0, event_type, NoQ)
    /\ trail' = NoTrail
    /\ UNCHANGED <<current_keys, running, os, nstarts, mon, kb, ms,
                   keyboard_listener, mouse_listener, key_lock, hook, held,
                   hist>>

\* on(event_type, callback, **kwargs)
on(event_type, callback, kwargs) ==
    /\ IF event_type \notin DOMAIN listeners
       THEN /\ err' = Some("ValueError")
            /\ UNCHANGED listeners
       ELSE /\ NumSubs < MaxSubs
            /\ err' = None
            /\ listeners' = [listeners EXCEPT ![event_type] =
                                Append(@, [cb |-> callback, kw |-> kwargs])]
    /\ out' = <<>>
    /\ ev' = Ev("on", 0, event_type, NoQ)
    /\ trail' = NoTrail
    /\ UNCHANGED <<current_keys, running, os, nstarts, mon, kb, ms,
                   keyboard_listener, mouse_listener, key_lock, hook, held,
                   hist>>

\* ------------------------------------------------------------ start / stop
\* start(): the flag, a new keyboard listener, a new mouse listener, a new
\* monitor thread (which sets its locals to None before its first test)
start ==
    /\ nstarts < MaxStarts
    /\ nstarts' = nstarts + 1
    /\ running' = TRUE
    /\ kb' = [kb EXCEPT ![nstarts + 1] = "active"]
    /\ keyboard_listener' = nstarts + 1
    /\ ms' = [ms EXCEPT ![nstarts + 1] = "active"]
    /\ mouse_listener' = nstarts + 1
    /\ mon' = [mon EXCEPT ![nstarts + 1] = [pc |-> "while"] @@ MonitorLocals]
    /\ out' = <<>>
    /\ ev' = Ev("start", 0, "", NoQ)
    /\ err' = None
    /\ trail' = NoTrail
    /\ UNCHANGED <<listeners, current_keys, os, key_lock, hook, held, hist>>

\* stop(): the flag, then .stop() on the listeners the two attributes name
stop ==
    /\ running' = FALSE
    /\ kb' = IF keyboard_listener = 0 THEN kb
             ELSE [kb EXCEPT ![keyboard_listener] = "stopped"]
    /\ ms' = IF mouse_listener = 0 THEN ms
             ELSE [ms EXCEPT ![mouse_listener] = "stopped"]
    /\ out' = <<>>
    /\ ev' = Ev("stop", 0, "", NoQ)
    /\ err' = None
    /\ trail' = NoTrail
    /\ UNCHANGED <<listeners, current_keys, os, nstarts, mon,
                   keyboard_listener, mouse_listener, key_lock, hook, held,
                   hist>>

\* ------------------------------------------------------------ keyboard hook
\* str.lower() over the letters that occur
UpperToLower == [C |-> "c", T |-> "t", R |-> "r", L |-> "l"]
lower(s) == [i \in 1..Len(s) |->
                IF s[i] \in DOMAIN UpperToLower THEN UpperToLower[s[i]] ELSE s[i]]
\* str.strip(chars)
RECURSIVE lstrip(_, _)
lstrip(s, ch) == IF s # <<>> /\ s[1] = ch THEN lstrip(Tail(s), ch) ELSE s
RECURSIVE rstrip(_, _)
rstrip(s, ch) ==
    IF s # <<>> /\ s[Len(s)] = ch THEN rstrip(SubSeq(s, 1, Len(s) - 1), ch) ELSE s
strip(s, ch) == rstrip(lstrip(s, ch), ch)
\* str(key): the repr of the character, <vk>, or Key.name
str(key) ==
    IF key.class = "Key" THEN <<"K", "e", "y", ".">> \o key.name
    ELSE IF key.char # None THEN <<"'">> \o key.char[1] \o <<"'">>
    ELSE <<"<">> \o key.vk \o <<">">>
\* _key_to_string(key)
key_to_string(key) ==
    IF key.class = "KeyCode" /\ key.char # None /\ key.char[1] # <<>>
    THEN lower(key.char[1])
    ELSE IF key.class = "Key"
         THEN IF key.name # <<>> THEN lower(key.name) ELSE str(key)
    ELSE strip(str(key), "'")

\* set(combo)
set(combo) == {combo[i] : i \in 1..Len(combo)}
\* _check_combo(combo) when current_keys is keys
check_combo(combo, keys) == set(combo) \subseteq keys

\* for cb, params in self.listeners["key_combo"]: from subscription i on; ends
\* at the first callback that raises
RECURSIVE ComboLoop(_, _, _, _)
ComboLoop(subs, i, keys, calls) ==
    IF i > Len(subs) THEN [calls |-> calls, raised |-> FALSE]
    ELSE LET combo == GetCombo(subs[i].kw)
             call == Call("key_combo", i, subs[i].cb, Args(<<>>, <<>>, combo))
         IN IF combo # <<>> /\ check_combo(combo, keys)
            THEN IF Raises(subs[i].cb)
                 THEN [calls |-> Append(calls, call), raised |-> TRUE]
                 ELSE ComboLoop(subs, i + 1, keys, Append(calls, call))
            ELSE ComboLoop(subs, i + 1, keys, calls)

KeyFrame ==
    UNCHANGED <<listeners, running, os, nstarts, mon, ms,
                keyboard_listener, mouse_listener, key_lock, hook, hist, err>>

\* the listener after a handler of hook t returned, or raised: what pynput does
\* with an exception that leaves a handler is not in this repository, so the
\* hook goes on or fails
HandlerEnds(t, raised) ==
    IF raised THEN kb' \in {kb, [kb EXCEPT ![t] = "failed"]} ELSE kb' = kb

\* on_press(key) on the thread of hook t.  One step: the hooks are active one
\* at a time here, and nothing else writes current_keys.  (The keys that are
\* physically down are the environment's: each specification says what
\* becomes of held.)
on_press(t, key) ==
    /\ kb[t] = "active"
    /\ LET key_str == key_to_string(key)
           keys == current_keys \cup {key_str}
           kp == RunCallbacks("key_press", listeners["key_press"],
                              Args(<<>>, <<>>, <<key_str>>))
           co == IF kp.raised THEN [calls |-> <<>>, raised |-> FALSE]
                 ELSE ComboLoop(listeners["key_combo"], 1, keys, <<>>)
       IN /\ current_keys' = keys
          /\ out' = kp.calls \o co.calls
          /\ HandlerEnds(t, kp.raised \/ co.raised)
    /\ trail' = Trail("pressed", key, current_keys)
    /\ ev' = Ev("press", t, "", NoQ)
    /\ KeyFrame

\* (mutant) a release that puts back the keys held before the press it follows
on_release_restoring(t, key) ==
    /\ kb[t] = "active"
    /\ LET key_str == key_to_string(key)
           kr == RunCallbacks("key_release", listeners["key_release"],
                              Args(<<>>, <<>>, <<key_str>>))
       IN /\ current_keys' = IF trail.stage = "pressed" /\ trail.key = key
                             THEN trail.before
                             ELSE current_keys \ {key_str}
          /\ out' = kr.calls
          /\ HandlerEnds(t, kr.raised)
    /\ trail' = IF trail.stage = "pressed" /\ trail.key = key
                THEN [trail EXCEPT !.stage = "released"]
                ELSE NoTrail
    /\ ev' = Ev("release", t, "", NoQ)
    /\ KeyFrame

\* on_release(key) on the thread of hook t
on_release(t, key) ==
    /\ kb[t] = "active"
    /\ LET key_str == key_to_string(key)
           kr == RunCallbacks("key_release", listeners["key_release"],
                              Args(<<>>, <<>>, <<key_str>>))
       IN /\ current_keys' = current_keys \ {key_str}
          /\ out' = kr.calls
          /\ HandlerEnds(t, kr.raised)
    /\ trail' = IF trail.stage = "pressed" /\ trail.key = key
                THEN [trail EXCEPT !.stage = "released"]
                ELSE NoTrail
    /\ ev' = Ev("release", t, "", NoQ)
    /\ KeyFrame

\* ------------------------------------------- the handlers, step by step
\* on_press and on_release as the steps of a hook thread between its entries
\* into and its exits from "with self._key_lock", for hooks whose threads run
\* side by side.  The callbacks run in the step that follows the exit.
StepFrame ==
    UNCHANGED <<listeners, running, os, nstarts, mon, ms,
                keyboard_listener, mouse_listener, held, hist, err>>
\* the first key_combo subscription from i on whose combo is not empty (the
\* others are passed over without a test), or the length of the list plus 1
RECURSIVE NextCombo(_)
NextCombo(i) ==
    IF i > Len(listeners["key_combo"]) THEN i
    ELSE IF GetCombo(listeners["key_combo"][i].kw) # <<>> THEN i
    ELSE NextCombo(i + 1)
\* the thread after it left on_press at subscription i - 1
AtCombo(key_str, i) ==
    IF NextCombo(i) > Len(listeners["key_combo"]) THEN Idle
    ELSE At("combo", key_str, NextCombo(i))

\* (mutant) an entry that does not wait for the lock
on_press_lock_free(t, key) ==
    /\ kb[t] = "active"
    /\ hook[t].pc = "idle"
    /\ key_lock' = t
    /\ hook' = [hook EXCEPT ![t] = At("press", key_to_string(key), 0)]
    /\ out' = <<>>
    /\ ev' = Ev("key", t, "", NoQ)
    /\ trail' = NoTrail
    /\ UNCHANGED <<current_keys, kb>>
    /\ StepFrame

\* on_press(key): key_str, and the entry into the lock
on_press_lock(t, key) ==
    /\ kb[t] = "active"
    /\ hook[t].pc = "idle"
    /\ key_lock = 0
    /\ key_lock' = t
    /\ hook' = [hook EXCEPT ![t] = At("press", key_to_string(key), 0)]
    /\ out' = <<>>
    /\ ev' = Ev("key", t, "", NoQ)
    /\ trail' = NoTrail
    /\ UNCHANGED <<current_keys, kb>>
    /\ StepFrame

\* on_press: the add, the exit from the lock, the key_press callbacks
on_press_add(t) ==
    /\ hook[t].pc = "press"
    /\ LET kp == RunCallbacks("key_press", listeners["key_press"],
                              Args(<<>>, <<>>, <<hook[t].key_str>>))
       IN /\ current_keys' = current_keys \cup {hook[t].key_str}
          /\ key_lock' = 0
          /\ out' = kp.calls
          /\ hook' = [hook EXCEPT ![t] = IF kp.raised THEN Idle
                                         ELSE AtCombo(hook[t].key_str, 1)]
          /\ HandlerEnds(t, kp.raised)
    /\ ev' = Ev("key", t, "", NoQ)
    /\ trail' = NoTrail
    /\ StepFrame

\* _check_combo(combo) of subscription i: the entry into the lock
check_combo_lock(t) ==
    /\ hook[t].pc = "combo"
    /\ key_lock = 0
    /\ key_lock' = t
    /\ hook' = [hook EXCEPT ![t].pc = "test"]
    /\ out' = <<>>
    /\ ev' = Ev("key", t, "", NoQ)
    /\ trail' = NoTrail
    /\ UNCHANGED <<current_keys, kb>>
    /\ StepFrame

\* _check_combo(combo): the test, the exit from the lock, and cb(combo)
check_combo_test(t) ==
    /\ hook[t].pc = "test"
    /\ LET sub == listeners["key_combo"][hook[t].i]
           combo == GetCombo(sub.kw)
           hit == check_combo(combo, current_keys)
           raised == hit /\ Raises(sub.cb)
       IN /\ key_lock' = 0
          /\ out' = IF hit
                    THEN <<Call("key_combo", hook[t].i, sub.cb,
                                Args(<<>>, <<>>, combo))>>
                    ELSE <<>>
          /\ hook' = [hook EXCEPT ![t] = IF raised THEN Idle
                                         ELSE AtCombo(hook[t].key_str, hook[t].i + 1)]
          /\ HandlerEnds(t, raised)
    /\ ev' = Ev("key", t, "", NoQ)
    /\ trail' = NoTrail
    /\ UNCHANGED current_keys
    /\ StepFrame

\* on_release(key): key_str, and the entry into the lock
on_release_lock(t, key) ==
    /\ kb[t] = "active"
    /\ hook[t].pc = "idle"
    /\ key_lock = 0
    /\ key_lock' = t
    /\ hook' = [hook EXCEPT ![t] = At("release", key_to_string(key), 0)]
    /\ out' = <<>>
    /\ ev' = Ev("key", t, "", NoQ)
    /\ trail' = NoTrail
    /\ UNCHANGED <<current_keys, kb>>
    /\ StepFrame

\* on_release: the discard, the exit from the lock, the key_release callbacks
on_release_discard(t) ==
    /\ hook[t].pc = "release"
    /\ LET kr == RunCallbacks("key_release", listeners["key_release"],
                              Args(<<>>, <<>>, <<hook[t].key_str>>))
       IN /\ current_keys' = current_keys \ {hook[t].key_str}
          /\ key_lock' = 0
          /\ out' = kr.calls
          /\ hook' = [hook EXCEPT ![t] = Idle]
          /\ HandlerEnds(t, kr.raised)
    /\ ev' = Ev("key", t, "", NoQ)
    /\ trail' = NoTrail
    /\ StepFrame

\* --------------------------------------------------------------- mouse hook
\* what the mouse hook reports: a position, a button, a scroll step
Positions == {<<3, 4>>}
Buttons == {<<"l", "e", "f", "t">>}
Scrolls == {<<0, -1>>}
MouseFrame ==
    UNCHANGED <<listeners, current_keys, running, os, nstarts, mon, kb,
                keyboard_listener, mouse_listener, key_lock, hook, held,
                hist, err>>
\* the end of a handler of mouse hook t (as HandlerEnds)
MouseHandlerEnds(t, raised) ==
    IF raised THEN ms' \in {ms, [ms EXCEPT ![t] = "failed"]} ELSE ms' = ms
\* a handler of mouse hook t that calls the callbacks of cat with args
MouseDispatch(t, cat, op, args) ==
    /\ ms[t] = "active"
    /\ LET r == RunCallbacks(cat, listeners[cat], args)
       IN out' = r.calls /\ MouseHandlerEnds(t, r.raised)
    /\ trail' = NoTrail
    /\ ev' = Ev(op, t, "", NoQ)
    /\ MouseFrame
\* on_click(x, y, button, pressed)
on_click(t, xy, button, pressed) ==
    MouseDispatch(t, "mouse_click", "click", Args(xy, <<pressed>>, <<button>>))
\* on_move(x, y)
on_move(t, xy) ==
    MouseDispatch(t, "mouse_move", "move", Args(xy, <<>>, <<>>))
\* on_scroll(x, y, dx, dy)
on_scroll(t, xy, dxy) ==
    MouseDispatch(t, "mouse_scroll", "scroll", Args(xy \o dxy, <<>>, <<>>))

\* ---------------------------------------------------------- volume query
\* the answers the mixer of each platform can give
VolQueriesFor(o) ==
    IF o = "windows" THEN {q \in VolQueries : q.kind = "exc" \/ (q.kind = "ok" /\ q.vol # None)}
    ELSE IF o = "darwin" THEN {q \in VolQueries : q.kind \in {"exc", "ok"}}
    ELSE IF o = "linux" THEN VolQueries
    ELSE {NoQ}

\* _get_system_volume(): (vol, muted), each None when unavailable
VolMuted(vol, muted) == [vol |-> vol, muted |-> muted]
get_system_volume(o, q) ==
    IF q.kind = "exc" THEN VolMuted(None, None)
    ELSE IF o = "windows" THEN VolMuted(q.vol, Some(q.mute))
    ELSE IF o = "darwin" THEN VolMuted(q.vol, Some(q.mute))
    ELSE IF o = "linux" THEN
        IF q.kind = "notool" THEN VolMuted(None, None)
        ELSE IF q.vol # None THEN VolMuted(q.vol, Some(q.mute))
        ELSE VolMuted(None, None)
    ELSE VolMuted(None, None)

\* any(iface.isup for iface in net.values())
AnyUp(ifaces) == \E i \in 1..Len(ifaces) : ifaces[i]

\* ----------------------------------------------------------- monitor thread
MonFrame ==
    UNCHANGED <<listeners, current_keys, running, os, nstarts, kb, ms,
                keyboard_listener, mouse_listener, key_lock, hook, held,
                trail, err>>

\* (mutant) while True:
MonitorWhileForever(t) ==
    /\ mon[t].pc = "while"
    /\ mon' = [mon EXCEPT ![t].pc = "battery"]
    /\ out' = <<>>
    /\ ev' = Ev("while", t, "", NoQ)
    /\ MonFrame

\* while self.running: (after the sleep that ends the previous iteration);
\* when the test fails monitor() returns, and the record keeps the values its
\* locals held last
MonitorWhile(t) ==
    /\ mon[t].pc = "while"
    /\ mon' = [mon EXCEPT ![t].pc = IF running THEN "battery" ELSE "done"]
    /\ out' = <<>>
    /\ ev' = Ev("while", t, "", NoQ)
    /\ MonFrame

\* the comparison that decides a dispatch
Changed(last, value) == last # Some(value)

\* (mutant) the battery section with no try around it: an exception of the
\* query or of a callback ends the thread
MonitorBatteryUncaught(t, q) ==
    /\ mon[t].pc = "battery"
    /\ IF listeners["battery"] = <<>>
       THEN /\ q = NoQ
            /\ mon' = [mon EXCEPT ![t].pc = "network"]
            /\ out' = <<>>
       ELSE /\ q \in BattQueries
            /\ IF q.kind = "exc"
               THEN /\ mon' = [mon EXCEPT ![t].pc = "done"]
                    /\ out' = <<>>
               ELSE IF q.batt # None /\ mon[t].last_battery # q.batt
               THEN LET r == RunCallbacks("battery", listeners["battery"],
                                 Args(<<q.batt[1][1]>>, <<q.batt[1][2]>>, <<>>))
                    IN /\ mon' = [mon EXCEPT
                              ![t].pc = IF r.raised THEN "done" ELSE "network",
                              ![t].last_battery = q.batt]
                       /\ out' = r.calls
               ELSE /\ mon' = [mon EXCEPT ![t].pc = "network"]
                    /\ out' = <<>>
    /\ ev' = Ev("battery", t, "", q)
    /\ MonFrame

\* the battery section of one iteration
MonitorBattery(t, q) ==
    /\ mon[t].pc = "battery"
    /\ IF listeners["battery"] = <<>>
       THEN /\ q = NoQ
            /\ mon' = [mon EXCEPT ![t].pc = "network"]
            /\ out' = <<>>
       ELSE /\ q \in BattQueries
            /\ IF q.kind = "ok" /\ q.batt # None /\ Changed(mon[t].last_battery, q.batt[1])
               THEN /\ mon' = [mon EXCEPT ![t].pc = "network",
                                          ![t].last_battery = q.batt]
                    /\ out' = RunCallbacks("battery", listeners["battery"],
                                  Args(<<q.batt[1][1]>>, <<q.batt[1][2]>>, <<>>)).calls
               ELSE /\ mon' = [mon EXCEPT ![t].pc = "network"]
                    /\ out' = <<>>
    /\ ev' = Ev("battery", t, "", q)
    /\ MonFrame

\* the network section of one iteration
MonitorNetwork(t, q) ==
    /\ mon[t].pc = "network"
    /\ IF listeners["network"] = <<>>
       THEN /\ q = NoQ
            /\ mon' = [mon EXCEPT ![t].pc = "volume"]
            /\ out' = <<>>
       ELSE /\ q \in NetQueries
            /\ IF q.kind = "ok" /\ Changed(mon[t].last_net, AnyUp(q.ifaces))
               THEN /\ mon' = [mon EXCEPT ![t].pc = "volume",
                                          ![t].last_net = Some(AnyUp(q.ifaces))]
                    /\ out' = RunCallbacks("network", listeners["network"],
                                  Args(<<>>, <<AnyUp(q.ifaces)>>, <<>>)).calls
               ELSE /\ mon' = [mon EXCEPT ![t].pc = "volume"]
                    /\ out' = <<>>
    /\ ev' = Ev("network", t, "", q)
    /\ MonFrame

\* for cb, params in self.listeners["volume_threshold"]: from subscription i
\* on, with the running last_vol_state; ends at the first callback that raises
RECURSIVE ThresholdLoop(_, _, _, _, _)
ThresholdLoop(subs, i, last, vol, calls) ==
    IF i > Len(subs) THEN [last |-> last, calls |-> calls, raised |-> FALSE]
    ELSE LET state == vol >= GetThreshold(subs[i].kw)
             call == Call("volume_threshold", i, subs[i].cb, Args(<<vol>>, <<>>, <<>>))
         IN IF Changed(last, state)
            THEN IF Raises(subs[i].cb)
                 THEN [last |-> Some(state), calls |-> Append(calls, call),
                       raised |-> TRUE]
                 ELSE ThresholdLoop(subs, i + 1, Some(state), vol, Append(calls, call))
            ELSE ThresholdLoop(subs, i + 1, last, vol, calls)

\* the volume section of one iteration, and the sleep after it
MonitorVolume(t, q) ==
    /\ mon[t].pc = "volume"
    /\ IF listeners["volume_threshold"] = <<>> /\ listeners["volume_mute"] = <<>>
       THEN /\ q = NoQ
            /\ mon' = [mon EXCEPT ![t].pc = "while"]
            /\ out' = <<>>
       ELSE /\ q \in VolQueriesFor(os)
            /\ LET r == get_system_volume(os, q)
                   th == IF r.vol # None
                         THEN ThresholdLoop(listeners["volume_threshold"], 1,
                                            mon[t].last_vol_state, r.vol[1], <<>>)
                         ELSE [last |-> mon[t].last_vol_state, calls |-> <<>>,
                               raised |-> FALSE]
                   mute == ~th.raised /\ r.muted # None
                           /\ r.muted # mon[t].last_mute_state
               IN /\ mon' = [mon EXCEPT
                        ![t].pc = "while",
                        ![t].last_vol_state = th.last,
                        ![t].last_mute_state = IF mute THEN r.muted ELSE @]
                  /\ out' = IF mute
                            THEN th.calls \o
                                 RunCallbacks("volume_mute", listeners["volume_mute"],
                                     Args(<<>>, <<r.muted[1]>>, <<>>)).calls
                            ELSE th.calls
    /\ ev' = Ev("volume", t, "", q)
    /\ MonFrame

\* the record of a thread's samples after a query of `signal` was made (asked)
\* and answered `value` (None: it failed or was unavailable); the failures are
\* recorded when withFailed
Seen(h, field, signal, asked, value, withFailed) ==
    IF ~asked THEN h
    ELSE IF value = None
         THEN IF withFailed THEN [h EXCEPT !.failed = @ \cup {signal}] ELSE h
    ELSE [h EXCEPT ![field] = value, !.failed = @ \ {signal}]

\* hist after the monitor step that ev' reports
Recorded(withFailed) ==
    LET e == ev'
        r == get_system_volume(os, e.q)
    IN hist' = [hist EXCEPT ![e.t] =
        IF e.op = "battery"
        THEN Seen(@, "battery", "battery", e.q.kind # "none", e.q.batt, withFailed)
        ELSE IF e.op = "network"
        THEN Seen(@, "network", "network", e.q.kind # "none",
                  IF e.q.kind = "ok" THEN Some(AnyUp(e.q.ifaces)) ELSE None,
                  withFailed)
        ELSE IF e.op = "volume"
        THEN Seen(Seen(@, "volume", "volume_threshold", e.q.kind # "none",
                       r.vol, withFailed),
                  "mute", "volume_mute", e.q.kind # "none", r.muted, withFailed)
        ELSE @]

monitor(t) ==
    \/ MonitorWhile(t)
    \/ \E q \in BattQueries \cup {NoQ} : MonitorBattery(t, q)
    \/ \E q \in NetQueries \cup {NoQ} : MonitorNetwork(t, q)
    \/ \E q \in VolQueries \cup {NoQ} : MonitorVolume(t, q)

\* -------------------------------------------------- the polling specification
OnIn(types) ==
    \E event_type \in types, callback \in Callbacks :
        \E kwargs \in KwFor(event_type) : on(event_type, callback, kwargs)

\* The registry holds polled categories only, and start() is called again
\* only once the earlier monitor thread has returned, so that one polling loop
\* runs at a time.  A mixer of "windows" or "freebsd" answers a subset of what
\* the "linux" one does.
PollOSes == {"darwin", "linux"}
InitPoll == Init /\ os \in PollOSes
NoLoop == \A t \in Threads : mon[t].pc \in {"unborn", "done"}
NextPoll ==
    \/ (NoLoop /\ OnIn(PollTypes))
    \/ (nstarts < PollStarts /\ NoLoop /\ start)
    \/ stop
    \/ \E t \in Threads : MonitorWhile(t) /\ Recorded(TRUE)
    \/ \E t \in Threads, q \in BattQueries \cup {NoQ} :
            MonitorBattery(t, q) /\ Recorded(TRUE)
    \/ \E t \in Threads, q \in NetQueries \cup {NoQ} :
            MonitorNetwork(t, q) /\ Recorded(TRUE)
    \/ \E t \in Threads, q \in VolQueries \cup {NoQ} :
            MonitorVolume(t, q) /\ Recorded(TRUE)

SpecPoll == InitPoll /\ [][NextPoll]_vars

\* -------------------------------------------------- the restart specification
\* start() and stop() in any order, so that several monitor threads may be
\* alive at once.  One network listener at most, registered before the first
\* start(); the mixer is never asked.
LifeTypes == {"network"}
InitLife == Init /\ os = "linux"
MonitorStep(t) == monitor(t) /\ Recorded(FALSE)
NextLife ==
    \/ (nstarts = 0 /\ listeners["network"] = <<>> /\ OnIn(LifeTypes))
    \/ start
    \/ stop
    \/ \E t \in Threads : MonitorStep(t)

SpecLife == InitLife /\ [][NextLife]_vars
\* every monitor thread is scheduled again and again; the queries and the
\* callbacks it calls return
FairLife == SpecLife /\ \A t \in Threads : WF_vars(MonitorStep(t))

\* ------------------------------------------------- the isolation specification
\* One loop: start() is called once, after at most one listener was registered
\* for each of battery, network and volume_mute.
IsoTypes == {"battery", "network", "volume_mute"}
NextIso ==
    \/ \E e \in IsoTypes : nstarts = 0 /\ listeners[e] = <<>> /\ OnIn({e})
    \/ (nstarts = 0 /\ start)
    \/ stop
    \/ \E t \in Threads : MonitorWhile(t) /\ Recorded(TRUE)
    \/ \E t \in Threads, q \in BattQueries \cup {NoQ} :
            MonitorBattery(t, q) /\ Recorded(TRUE)
    \/ \E t \in Threads, q \in NetQueries \cup {NoQ} :
            MonitorNetwork(t, q) /\ Recorded(TRUE)
    \/ \E t \in Threads, q \in VolQueries \cup {NoQ} :
            MonitorVolume(t, q) /\ Recorded(TRUE)

SpecIso == InitLife /\ [][NextIso]_vars

\* ------------------------------------------------- the keyboard specification
\* Key listeners are registered before the first start(); start() is called
\* again only once the earlier keyboard hook was stopped or has failed; the
\* hook delivers any sequence of presses and releases of the raw keys.
InitKeys == Init /\ os = "linux"
NoHookActive == \A t \in Threads : kb[t] # "active"
NextKeys ==
    \/ (nstarts = 0 /\ OnIn(KeyTypes))
    \/ (NoHookActive /\ start)
    \/ stop
    \/ \E t \in Threads, key \in RawKeys : on_press(t, key) /\ UNCHANGED held
    \/ \E t \in Threads, key \in RawKeys : on_release(t, key) /\ UNCHANGED held

SpecKeys == InitKeys /\ [][NextKeys]_vars

\* ---------------------------------------------- the physical-keys specification
\* The keys go down and up physically (a key that is down may repeat); the
\* active keyboard hook, if there is one, handles the event, and with no
\* active hook nothing of the program changes.  No listener is registered;
\* start() as in the keyboard specification.
HookActive == {t \in Threads : kb[t] = "active"}
Unseen(op) ==
    /\ HookActive = {}
    /\ out' = <<>>
    /\ ev' = Ev(op, 0, "", NoQ)
    /\ UNCHANGED <<listeners, current_keys, running, os, nstarts, mon, kb, ms,
                   keyboard_listener, mouse_listener, key_lock, hook, hist,
                   trail, err>>
key_down(key) ==
    /\ held' = held \cup {key}
    /\ \/ \E t \in HookActive : on_press(t, key)
       \/ Unseen("down")
key_up(key) ==
    /\ key \in held
    /\ held' = held \ {key}
    /\ \/ \E t \in HookActive : on_release(t, key)
       \/ Unseen("up")
NextHeld ==
    \/ (NoHookActive /\ start)
    \/ stop
    \/ \E key \in RawKeys : key_down(key)
    \/ \E key \in RawKeys : key_up(key)

SpecHeld == InitKeys /\ [][NextHeld]_vars

\* ----------------------------------------------------- the lock specification
\* Everything that runs side by side after start(): the threads of the keyboard
\* hooks step by step, the mouse hooks, the monitor threads.  start() is called
\* again only once the earlier monitor thread has returned (so after a
\* stop()); the thread of the stopped keyboard hook finishes the handler it is
\* in, side by side with the thread of the new hook.  At most one listener
\* for each of key_combo and mouse_click, registered before the first start().
LockTypes == {"key_combo", "mouse_click"}
NextLock ==
    \/ \E e \in LockTypes : nstarts = 0 /\ listeners[e] = <<>> /\ OnIn({e})
    \/ (NoLoop /\ start)
    \/ stop
    \/ \E t \in Threads, key \in RawKeys : on_press_lock(t, key)
    \/ \E t \in Threads : on_press_add(t)
    \/ \E t \in Threads : check_combo_lock(t)
    \/ \E t \in Threads : check_combo_test(t)
    \/ \E t \in Threads, key \in RawKeys : on_release_lock(t, key)
    \/ \E t \in Threads : on_release_discard(t)
    \/ \E t \in Threads, xy \in Positions, b \in Buttons, p \in BOOLEAN :
            on_click(t, xy, b, p)
    \/ \E t \in Threads, xy \in Positions : on_move(t, xy)
    \/ \E t \in Threads, xy \in Positions, d \in Scrolls : on_scroll(t, xy, d)
    \/ \E t \in Threads : MonitorStep(t)

SpecLock == InitLife /\ [][NextLock]_vars

\* ------------------------------------------------- the registry specification
\* on() with every event type of the registry and with two that are not
OtherTypes == {"bogus", "Key_Press"}
NextReg == OnIn(EventTypes \cup OtherTypes)
SpecReg == InitKeys /\ [][NextReg]_vars

\* ================================================================== claims
HasCall(calls, cat) == \E k \in 1..Len(calls) : calls[k].cat = cat
\* the dispatch of a category to every subscription, in order
FullDispatch(cat, args) ==
    [i \in 1..Len(listeners[cat]) |-> Call(cat, i, listeners[cat][i].cb, args)]
\* two volumes fall on the same side of every registered threshold
SameSide(v, w) ==
    \A i \in 1..Len(listeners["volume_threshold"]) :
        LET th == GetThreshold(listeners["volume_threshold"][i].kw)
        IN (v >= th) <=> (w >= th)

\* C1: a polled signal's callbacks are dispatched by a sample of a loop only
\* when the sample's classified value differs from the one of the loop's
\* previous available sample of that signal (for several thresholds: when the
\* two volumes are not on the same side of every threshold).
C1_EdgeTriggered ==
    [][LET t == ev'.t
       IN /\ (ev'.op = "battery" /\ HasCall(out', "battery"))
                => hist'[t].battery # hist[t].battery
          /\ (ev'.op = "network" /\ HasCall(out', "network"))
                => hist'[t].network # hist[t].network
          /\ (ev'.op = "volume" /\ HasCall(out', "volume_mute"))
                => hist'[t].mute # hist[t].mute
          /\ (ev'.op = "volume" /\ HasCall(out', "volume_threshold"))
                => \/ hist[t].volume = None
                   \/ ~SameSide(hist[t].volume[1], hist'[t].volume[1])
      ]_vars

\* C3: when a callback raises in a dispatch, every callback registered after it
\* for the same category is still called in that dispatch.  (Stated for the
\* categories whose dispatch calls every subscription: all but key_combo and
\* volume_threshold, which test each subscription first.)
C3_CallbackIsolation ==
    \A k \in 1..Len(out) :
        (Raises(out[k].cb) /\ out[k].cat \notin {"key_combo", "volume_threshold"})
        => \A j \in (out[k].idx + 1)..Len(listeners[out[k].cat]) :
              \E m \in 1..Len(out) :
                  m > k /\ out[m].cat = out[k].cat /\ out[m].idx = j

\* C7: the first available sample a loop obtains of a signal that has a listener
\* is dispatched, whatever its value.
C7_FirstSampleDispatches ==
    [][LET t == ev'.t
           r == get_system_volume(os, ev'.q)
       IN /\ (ev'.op = "battery" /\ listeners["battery"] # <<>>
                /\ hist[t].battery = None /\ hist'[t].battery # None)
                => HasCall(out', "battery")
          /\ (ev'.op = "network" /\ listeners["network"] # <<>>
                /\ hist[t].network = None /\ hist'[t].network # None)
                => HasCall(out', "network")
          /\ (ev'.op = "volume" /\ listeners["volume_threshold"] # <<>>
                /\ hist[t].volume = None /\ hist'[t].volume # None)
                => HasCall(out', "volume_threshold")
          /\ (ev'.op = "volume" /\ listeners["volume_mute"] # <<>>
                /\ hist[t].mute = None /\ hist'[t].mute # None)
                => HasCall(out', "volume_mute")
      ]_vars

\* C8: with a battery listener and an available sample (percent, plugged), the
\* battery callbacks are called, each with exactly (percent, plugged), if and
\* only if the sample differs from the stored tuple; an unavailable sample calls
\* none and leaves the stored tuple as it was.
C8_BatteryEdge ==
    [][(ev'.op = "battery" /\ listeners["battery"] # <<>>)
        => LET t == ev'.t
               q == ev'.q
           IN IF q.kind = "ok" /\ q.batt # None
              THEN IF q.batt # mon[t].last_battery
                   THEN out' = FullDispatch("battery",
                                   Args(<<q.batt[1][1]>>, <<q.batt[1][2]>>, <<>>))
                   ELSE out' = <<>>
              ELSE out' = <<>> /\ mon'[t].last_battery = mon[t].last_battery
      ]_vars

\* C9: a failed or unavailable query of a signal calls none of the signal's
\* callbacks, leaves its stored value as it was and does not end the loop; and
\* the next available sample is dispatched exactly when its classified value
\* (for the volume: against the first listener's threshold) differs from the
\* value stored before the failure.
C9_QueryFailure ==
    [][LET t == ev'.t
           q == ev'.q
           r == get_system_volume(os, q)
           first == GetThreshold(listeners["volume_threshold"][1].kw)
       IN /\ (ev'.op = "battery" /\ q.kind # "none" /\ (q.kind = "exc" \/ q.batt = None))
                => /\ out' = <<>>
                   /\ mon'[t].last_battery = mon[t].last_battery
                   /\ mon'[t].pc # "done"
          /\ (ev'.op = "network" /\ q.kind = "exc")
                => /\ out' = <<>>
                   /\ mon'[t].last_net = mon[t].last_net
                   /\ mon'[t].pc # "done"
          /\ (ev'.op = "volume" /\ q.kind # "none" /\ r.vol = None)
                => /\ ~HasCall(out', "volume_threshold")
                   /\ mon'[t].last_vol_state = mon[t].last_vol_state
                   /\ mon'[t].pc # "done"
          /\ (ev'.op = "volume" /\ q.kind # "none" /\ r.muted = None)
                => /\ ~HasCall(out', "volume_mute")
                   /\ mon'[t].last_mute_state = mon[t].last_mute_state
          /\ (ev'.op = "battery" /\ "battery" \in hist[t].failed
                /\ q.kind = "ok" /\ q.batt # None)
                => (HasCall(out', "battery") <=> q.batt # mon[t].last_battery)
          /\ (ev'.op = "network" /\ "network" \in hist[t].failed /\ q.kind = "ok")
                => (HasCall(out', "network")
                      <=> Some(AnyUp(q.ifaces)) # mon[t].last_net)
          /\ (ev'.op = "volume" /\ "volume_threshold" \in hist[t].failed
                /\ r.vol # None /\ listeners["volume_threshold"] # <<>>)
                => (HasCall(out', "volume_threshold")
                      <=> Some(r.vol[1] >= first) # mon[t].last_vol_state)
          /\ (ev'.op = "volume" /\ "volume_mute" \in hist[t].failed
                /\ r.muted # None /\ listeners["volume_mute"] # <<>>)
                => (HasCall(out', "volume_mute") <=> r.muted # mon[t].last_mute_state)
      ]_vars

\* the four last values of a monitor thread
Locals(m) == [last_battery |-> m.last_battery, last_net |-> m.last_net,
              last_vol_state |-> m.last_vol_state,
              last_mute_state |-> m.last_mute_state]
AllNone == [last_battery |-> None, last_net |-> None,
            last_vol_state |-> None, last_mute_state |-> None]

AllExited == \A t \in Threads : mon[t].pc \in {"unborn", "done"}
C10_LoopsTerminate == <>[](~running) => <>[]AllExited
\* two loops were started, stop() was called last, and both have exited
C10_Witness ==
    /\ ~running
    /\ ev.op = "while"
    /\ \A t \in 1..2 : mon[t].pc = "done"

\* C4 (as claimed): after press(k) and, right after it, release(k), the pressed
\* keys are the ones before the press, also when k's token was among them.
C4_PressReleaseRestores ==
    trail.stage = "released" => current_keys = trail.before

\* C4 (amended): after press(k) and, right after it, release(k), the pressed
\* keys are the ones before the press without k's token; they are the ones
\* before the press exactly when k's token was not among them.
C4_PressReleaseRemoves ==
    trail.stage = "released"
    => /\ current_keys = trail.before \ {key_to_string(trail.key)}
       /\ (current_keys = trail.before
             <=> key_to_string(trail.key) \notin trail.before)
\* a press and its release were handled with the key's token held before
C4_Witness ==
    /\ trail.stage = "released"
    /\ ev.op = "release"
    /\ key_to_string(trail.key) \in trail.before

\* C5: in every press every key_combo subscription with a non-empty combo is
\* called, once and with the combo, if and only if the combo's tokens are all
\* among the pressed keys (the pressed one included); a subscription with an
\* empty or absent combo is not called.
C5_ComboRefire ==
    [][ev'.op = "press"
        => \A i \in 1..Len(listeners["key_combo"]) :
              LET combo == GetCombo(listeners["key_combo"][i].kw)
                  calls == {k \in 1..Len(out') :
                              out'[k].cat = "key_combo" /\ out'[k].idx = i}
              IN IF combo # <<>> /\ set(combo) \subseteq current_keys'
                 THEN /\ Cardinality(calls) = 1
                      /\ \A k \in calls : out'[k].args = Args(<<>>, <<>>, combo)
                 ELSE calls = {}
      ]_vars

\* C6: on() with an event type that is not one of the ten raises ValueError and
\* leaves the registry as it was, no key added; with one of the ten it raises
\* nothing, appends one subscription to that type's list and leaves the other
\* lists as they were.
C6_UnknownCategory ==
    [][ev'.op = "on"
        => LET e == ev'.arg
           IN /\ DOMAIN listeners' = EventTypes
              /\ IF e \notin EventTypes
                 THEN err' = Some("ValueError") /\ listeners' = listeners
                 ELSE /\ err' = None
                      /\ Len(listeners'[e]) = Len(listeners[e]) + 1
                      /\ SubSeq(listeners'[e], 1, Len(listeners[e])) = listeners[e]
                      /\ \A o \in EventTypes \ {e} : listeners'[o] = listeners[o]
      ]_vars
\* an unknown event type was refused by a registry that holds a subscription
C6_Witness ==
    /\ ev.op = "on"
    /\ ev.arg \notin EventTypes
    /\ err = Some("ValueError")
    /\ NumSubs >= 1

\* C11: after stop() no keyboard hook and no mouse hook that a start() of this
\* instance created is active, however often start() was called before; and a
\* stop() before any start() raises nothing and changes the flag only.
C11_StopTearsDown ==
    [][ev'.op = "stop"
        => /\ \A t \in Threads : kb'[t] # "active" /\ ms'[t] # "active"
           /\ err' = None
           /\ nstarts = 0
                => UNCHANGED <<listeners, current_keys, mon, kb, ms,
                               keyboard_listener, mouse_listener>>
      ]_vars

\* C17: at no time are two monitor threads of the instance both inside an
\* iteration of the loop, sampling and dispatching.
Sampling == {t \in Threads : mon[t].pc \in {"battery", "network", "volume"}}
C17_OneLoop == Cardinality(Sampling) <= 1

\* the calls of one category among the calls of a step, in order
CallsOf(calls, cat) == SelectSeq(calls, LAMBDA c : c.cat = cat)
\* the threshold of the first volume_threshold subscription
FirstThreshold == GetThreshold(listeners["volume_threshold"][1].kw)

\* C13: whether a sample of the volume is dispatched to the volume_threshold
\* callbacks depends on the first subscription's threshold only: it is, exactly
\* when the sample is the loop's first or falls on the other side of that
\* threshold than the loop's previous sample.
C13_FirstThresholdOnly ==
    [][LET t == ev'.t
           r == get_system_volume(os, ev'.q)
       IN (ev'.op = "volume" /\ listeners["volume_threshold"] # <<>>
             /\ r.vol # None)
          => (HasCall(out', "volume_threshold")
                <=> \/ hist[t].volume = None
                    \/ (hist[t].volume[1] >= FirstThreshold)
                         # (r.vol[1] >= FirstThreshold))
      ]_vars

\* C14: a sample of the volume that is the loop's first, or that falls on the
\* other side of the threshold than the previous one, calls every
\* volume_threshold callback once, in registration order, with the volume.
C14_AllThresholdCallbacks ==
    [][LET t == ev'.t
           r == get_system_volume(os, ev'.q)
       IN (/\ ev'.op = "volume" /\ listeners["volume_threshold"] # <<>>
           /\ r.vol # None
           /\ \/ hist[t].volume = None
              \/ (hist[t].volume[1] >= FirstThreshold)
                   # (r.vol[1] >= FirstThreshold))
          => CallsOf(out', "volume_threshold")
               = FullDispatch("volume_threshold", Args(<<r.vol[1]>>, <<>>, <<>>))
      ]_vars

\* C15: an iteration whose volume query answers a mute value that differs from
\* the stored one calls the volume_mute callbacks and stores the value,
\* whatever the volume_threshold part of the iteration did.
C15_MuteIndependent ==
    [][LET t == ev'.t
           r == get_system_volume(os, ev'.q)
       IN (/\ ev'.op = "volume" /\ listeners["volume_mute"] # <<>>
           /\ r.muted # None
           /\ r.muted # mon[t].last_mute_state)
          => /\ HasCall(out', "volume_mute")
             /\ mon'[t].last_mute_state = r.muted
      ]_vars

\* the subscriptions called, in the order of the calls, and the subscriptions
\* registered, in the order of their registration
Order(calls) == [k \in 1..Len(calls) |-> <<calls[k].idx, calls[k].cb>>]
Registered(cat) ==
    [i \in 1..Len(listeners[cat]) |-> <<i, listeners[cat][i].cb>>]

\* C12: a dispatch calls the subscriptions of the category, each once, in the
\* order they were registered (here: key_press in a press, key_release in a
\* release).
C12_RegistrationOrder ==
    [][/\ ev'.op = "press"
            => Order(CallsOf(out', "key_press")) = Registered("key_press")
       /\ ev'.op = "release"
            => Order(CallsOf(out', "key_release")) = Registered("key_release")
      ]_vars

\* C18: while a keyboard hook is active, the tokens in current_keys are the
\* tokens of the keys that are physically down.
TokensHeld == {key_to_string(k) : k \in held}
C18_TracksHeldKeys == HookActive # {} => current_keys = TokensHeld

\* every key_combo subscription whose combo is non-empty and within keys, called
AllCombos ==
    [i \in 1..Len(listeners["key_combo"]) |->
        Call("key_combo", i, listeners["key_combo"][i].cb,
             Args(<<>>, <<>>, GetCombo(listeners["key_combo"][i].kw)))]
Matching(keys) ==
    SelectSeq(AllCombos,
              LAMBDA c : c.args.keys # <<>> /\ set(c.args.keys) \subseteq keys)

\* C19: a press puts the token into current_keys, then calls every key_press
\* callback with the token, then tests every key_combo subscription against
\* current_keys (the token in it) and calls the ones that match, whatever the
\* key_press callbacks did.
C19_PressOrder ==
    [][ev'.op = "press"
        => LET tok == key_to_string(trail'.key)
           IN /\ tok \in current_keys'
              /\ out' = FullDispatch("key_press", Args(<<>>, <<>>, <<tok>>))
                          \o Matching(current_keys')
      ]_vars

InCritical == {t \in Threads : hook[t].pc \in {"press", "test", "release"}}
\* C20: at most one thread is inside "with self._key_lock", and it is the one
\* the lock names; current_keys changes only in the add of a press and the
\* discard of a release, made by the thread that holds the lock, and a combo
\* is tested by the thread that holds it; mouse events, monitor steps, on(),
\* start() and stop() leave current_keys as it was; and only on() changes the
\* registry.
C20_LockAndFrame ==
    /\ [](/\ Cardinality(InCritical) <= 1
          /\ \A t \in Threads : key_lock = t <=> t \in InCritical)
    /\ [][/\ current_keys' # current_keys
               => /\ ev'.op = "key"
                  /\ key_lock = ev'.t
                  /\ hook[ev'.t].pc \in {"press", "release"}
          /\ HasCall(out', "key_combo")
               => ev'.op = "key" /\ key_lock = ev'.t /\ hook[ev'.t].pc = "test"
          /\ ev'.op # "key" => current_keys' = current_keys
          /\ ev'.op # "on" => listeners' = listeners
         ]_vars
\* one hook thread holds the lock for its add while the thread of another hook
\* is at a combo test and waits for it
C20_Witness ==
    \E t, u \in Threads :
        /\ t # u
        /\ key_lock = t /\ hook[t].pc = "press"
        /\ hook[u].pc = "combo"

====
